---- MODULE Spec2Model ----
(***************************************************************************)
(* TodoForge: the in-memory task store (server/storage.ts, MemStorage),    *)
(* the request schema (shared/schema.ts, insertTodoSchema) and the REST    *)
(* routes that validate a body and dispatch to the store (registerRoutes). *)
(*                                                                         *)
(* A JavaScript object is a function from its own keys to their values,    *)
(* so an absent key (completed left out of a body) differs from a key that *)
(* holds false.  The Map of the store is the sequence of its entries in    *)
(* insertion order, which is the order Map.values() iterates in.           *)
(***************************************************************************)
EXTENDS Integers, Sequences, FiniteSets, TLC

VARIABLES todos, uuids, last, pending

vars == <<todos, uuids, last, pending>>

(***************************************************************************)
(* Bounds.  Each specification has its own: the store and the router are   *)
(* driven with rich inputs over few tasks, the listing with plain inputs   *)
(* over more tasks and more instants.                                      *)
(***************************************************************************)
MaxTodos == 2
MaxTime == 1
StoreMaxTodos == 2
StoreMaxTime == 1
ListMaxTodos == 4
ListMaxTime == 2
MaxHandlers == 2
ConcMaxTodos == 1

(***************************************************************************)
(* JavaScript values.                                                      *)
(***************************************************************************)
Undefined == [undefined |-> TRUE]

EmptyObject == [k \in {} |-> TRUE]

\* { ...a, ...b }: the keys of both, b's value where both have the key.
Spread(a, b) ==
    [k \in (DOMAIN a) \cup (DOMAIN b) |-> IF k \in DOMAIN b THEN b[k] ELSE a[k]]

(***************************************************************************)
(* Map<string, Todo>: entries [key, value] in insertion order.             *)
(***************************************************************************)
MapHas(m, k) == \E i \in 1..Len(m) : m[i].key = k

MapGet(m, k) ==
    IF MapHas(m, k)
    THEN m[CHOOSE i \in 1..Len(m) : m[i].key = k].value
    ELSE Undefined

\* set keeps the position of a key the map has and appends a new key.
MapSet(m, k, v) ==
    IF MapHas(m, k)
    THEN [i \in 1..Len(m) |-> IF m[i].key = k THEN [key |-> k, value |-> v] ELSE m[i]]
    ELSE Append(m, [key |-> k, value |-> v])

MapDeleteKeepsAll(m, k) == m

MapDelete(m, k) ==
    LET Keep(e) == e.key # k
    IN  SelectSeq(m, Keep)

MapValues(m) == [i \in 1..Len(m) |-> m[i].value]

(***************************************************************************)
(* Array.prototype.sort with the comparator of getTodos,                   *)
(*   (a, b) => getTime(b.createdAt) - getTime(a.createdAt):                *)
(* a stable sort, so elements the comparator ties keep their order.        *)
(***************************************************************************)
compareAscending(a, b) == a.createdAt - b.createdAt

compare(a, b) == b.createdAt - a.createdAt

\* x placed before the elements it ties with: a sort that is not stable.
InsertSortedBeforeTies(s, x) ==
    LET n == Cardinality({i \in 1..Len(s) : compare(s[i], x) < 0})
    IN  SubSeq(s, 1, n) \o <<x>> \o SubSeq(s, n + 1, Len(s))

\* x placed after every element that does not sort after it.
InsertSorted(s, x) ==
    LET n == Cardinality({i \in 1..Len(s) : compare(s[i], x) <= 0})
    IN  SubSeq(s, 1, n) \o <<x>> \o SubSeq(s, n + 1, Len(s))

RECURSIVE Sort(_)
Sort(s) ==
    IF s = <<>> THEN <<>>
    ELSE InsertSorted(Sort(SubSeq(s, 1, Len(s) - 1)), s[Len(s)])

(***************************************************************************)
(* MemStorage: each method as the pair of the map it leaves and the value  *)
(* its promise resolves to.  No method awaits, so each runs to its return  *)
(* without another handler in between.                                     *)
(***************************************************************************)
getTodos(m) == [todos |-> m, ret |-> Sort(MapValues(m))]

getTodo(m, id) == [todos |-> m, ret |-> MapGet(m, id)]

createTodoNotStored(m, insertTodo, id, date) ==
    [todos |-> m, ret |-> Spread(insertTodo, [id |-> id, createdAt |-> date])]

\* id is the value randomUUID() returned, date the value of new Date().
createTodo(m, insertTodo, id, date) ==
    LET todo == Spread(insertTodo, [id |-> id, createdAt |-> date])
    IN  [todos |-> MapSet(m, id, todo), ret |-> todo]

updateTodoUpsert(m, id, updates) ==
    LET existingTodo == MapGet(m, id)
        updatedTodo == IF MapHas(m, id) THEN Spread(existingTodo, updates) ELSE updates
    IN  [todos |-> MapSet(m, id, updatedTodo),
         ret |-> IF MapHas(m, id) THEN updatedTodo ELSE Undefined]

updateTodoReplaces(m, id, updates) ==
    IF ~MapHas(m, id)
    THEN [todos |-> m, ret |-> Undefined]
    ELSE LET updatedTodo == Spread([id |-> id, createdAt |-> MapGet(m, id).createdAt], updates)
         IN  [todos |-> MapSet(m, id, updatedTodo), ret |-> updatedTodo]

updateTodo(m, id, updates) ==
    LET existingTodo == MapGet(m, id)
    IN  IF ~MapHas(m, id)
        THEN [todos |-> m, ret |-> Undefined]
        ELSE LET updatedTodo == Spread(existingTodo, updates)
             IN  [todos |-> MapSet(m, id, updatedTodo), ret |-> updatedTodo]

\* Map.delete returns whether the key was there.
deleteTodo(m, id) == [todos |-> MapDelete(m, id), ret |-> MapHas(m, id)]

(***************************************************************************)
(* State.  todos is MemStorage.todos.  uuids counts the values randomUUID  *)
(* has returned: a version-4 UUID does not repeat, and the store only      *)
(* compares ids for equality, so the n-th value returned is taken to be n. *)
(* last records the most recent call or request: what was asked, the map   *)
(* before it, and what came back.  pending holds the PATCH handlers that   *)
(* are followed across their await: what each was asked and what           *)
(* updateTodo returned to it.                                              *)
(***************************************************************************)
NoCall ==
    [op |-> "none", id |-> 0, arg |-> EmptyObject, before |-> <<>>,
     status |-> 0, ret |-> Undefined, calls |-> <<>>]

\* A PATCH handler that has not been entered.
Idle == [pc |-> "idle"]

Init ==
    /\ todos = <<>>
    /\ uuids = 0
    /\ last = NoCall
    /\ pending = [h \in 1..MaxHandlers |-> Idle]

(***************************************************************************)
(* Direct calls of the store's methods.                                    *)
(***************************************************************************)
CallGetTodos ==
    LET r == getTodos(todos)
    IN  /\ todos' = r.todos
        /\ last' = [op |-> "getTodos", id |-> 0, arg |-> EmptyObject, before |-> todos,
                    status |-> 0, ret |-> r.ret, calls |-> <<>>]
        /\ UNCHANGED <<uuids, pending>>

CallGetTodo(id) ==
    LET r == getTodo(todos, id)
    IN  /\ todos' = r.todos
        /\ last' = [op |-> "getTodo", id |-> id, arg |-> EmptyObject, before |-> todos,
                    status |-> 0, ret |-> r.ret, calls |-> <<>>]
        /\ UNCHANGED <<uuids, pending>>

CallCreateTodo(insertTodo, date) ==
    LET id == uuids + 1
        r == createTodo(todos, insertTodo, id, date)
    IN  /\ todos' = r.todos
        /\ uuids' = id
        /\ UNCHANGED pending
        /\ last' = [op |-> "createTodo", id |-> id, arg |-> insertTodo, before |-> todos,
                    status |-> 0, ret |-> r.ret, calls |-> <<>>]

CallUpdateTodo(id, updates) ==
    LET r == updateTodo(todos, id, updates)
    IN  /\ todos' = r.todos
        /\ last' = [op |-> "updateTodo", id |-> id, arg |-> updates, before |-> todos,
                    status |-> 0, ret |-> r.ret, calls |-> <<>>]
        /\ UNCHANGED <<uuids, pending>>

CallDeleteTodo(id) ==
    LET r == deleteTodo(todos, id)
    IN  /\ todos' = r.todos
        /\ last' = [op |-> "deleteTodo", id |-> id, arg |-> EmptyObject, before |-> todos,
                    status |-> 0, ret |-> r.ret, calls |-> <<>>]
        /\ UNCHANGED <<uuids, pending>>

\* The InsertTodo and Partial<InsertTodo> values the store is called with.
StoreInserts ==
    {[text |-> "a"], [text |-> "a", completed |-> FALSE], [text |-> "b", completed |-> TRUE]}

StoreUpdates ==
    {EmptyObject, [completed |-> TRUE], [text |-> "b"], [text |-> "a", completed |-> FALSE]}

StoreNext ==
    \/ CallGetTodos
    \/ \E id \in 1..StoreMaxTodos : CallGetTodo(id)
    \/ /\ uuids < StoreMaxTodos
       /\ \E insertTodo \in StoreInserts, date \in 0..StoreMaxTime :
            CallCreateTodo(insertTodo, date)
    \/ \E id \in 1..StoreMaxTodos, updates \in StoreUpdates : CallUpdateTodo(id, updates)
    \/ \E id \in 1..StoreMaxTodos : CallDeleteTodo(id)

SpecStore == Init /\ [][StoreNext]_vars

(***************************************************************************)
(* JSON values of a request body, tagged with what typeof reports.         *)
(***************************************************************************)
JString(s) == [type |-> "string", val |-> s]

JNumber(n) == [type |-> "number", val |-> n]

JBoolean(b) == [type |-> "boolean", val |-> b]

(***************************************************************************)
(* shared/schema.ts.  The columns of the todos table; createInsertSchema   *)
(* makes a key optional when its column has a default, and adds no rule    *)
(* beyond the column's type; omit drops id and createdAt.                  *)
(***************************************************************************)
todosTable ==
    [id        |-> [type |-> "string",  notNull |-> TRUE, hasDefault |-> TRUE],
     text      |-> [type |-> "string",  notNull |-> TRUE, hasDefault |-> FALSE],
     completed |-> [type |-> "boolean", notNull |-> TRUE, hasDefault |-> TRUE],
     createdAt |-> [type |-> "date",    notNull |-> TRUE, hasDefault |-> TRUE]]

createInsertSchema(table) ==
    [k \in DOMAIN table |->
        [type |-> table[k].type,
         optional |-> table[k].hasDefault \/ ~table[k].notNull]]

omit(schema, keys) == [k \in (DOMAIN schema) \ keys |-> schema[k]]

insertTodoSchema == omit(createInsertSchema(todosTable), {"id", "createdAt"})

partial(schema) ==
    [k \in DOMAIN schema |-> [type |-> schema[k].type, optional |-> TRUE]]

(***************************************************************************)
(* ZodObject.parse: one invalid_type issue for each key of the schema that *)
(* is required and missing or present with another type; keys the schema   *)
(* does not name are stripped; a key the body lacks is not added.          *)
(* ok = FALSE stands for the ZodError thrown.                              *)
(***************************************************************************)
\* The parser without the strip of unknown keys.
parsePassthrough(schema, body) ==
    LET failed == {k \in DOMAIN schema :
                      \/ k \notin DOMAIN body /\ ~schema[k].optional
                      \/ k \in DOMAIN body /\ body[k].type # schema[k].type}
    IN  [ok |-> failed = {},
         issues |-> {[code |-> "invalid_type", path |-> k] : k \in failed},
         data |-> [k \in DOMAIN body |-> body[k].val]]

parse(schema, body) ==
    LET missing == {k \in (DOMAIN schema) \ (DOMAIN body) : ~schema[k].optional}
        mistyped == {k \in (DOMAIN schema) \cap (DOMAIN body) :
                        body[k].type # schema[k].type}
        issues == {[code |-> "invalid_type", path |-> k, expected |-> schema[k].type,
                    received |-> "undefined"] : k \in missing}
                  \cup
                  {[code |-> "invalid_type", path |-> k, expected |-> schema[k].type,
                    received |-> body[k].type] : k \in mistyped}
    IN  [ok |-> issues = {},
         issues |-> issues,
         data |-> [k \in (DOMAIN schema) \cap (DOMAIN body) |-> body[k].val]]

(***************************************************************************)
(* registerRoutes: each handler as the map it leaves, the status and body  *)
(* of its response, and the store methods it called.  The store of this    *)
(* repository never throws, so the 500 branches are not taken.             *)
(***************************************************************************)
NotFound == [message |-> "Todo not found"]

\* GET /api/todos
listTodosRoute(m) ==
    LET r == getTodos(m)
    IN  [todos |-> r.todos, status |-> 200, body |-> r.ret, calls |-> <<"getTodos">>]

getTodoRouteAlways200(m, id) ==
    LET r == getTodo(m, id)
    IN  [todos |-> r.todos, status |-> 200, body |-> r.ret, calls |-> <<"getTodo">>]

\* GET /api/todos/:id
getTodoRoute(m, id) ==
    LET r == getTodo(m, id)
    IN  IF r.ret = Undefined
        THEN [todos |-> r.todos, status |-> 404, body |-> NotFound, calls |-> <<"getTodo">>]
        ELSE [todos |-> r.todos, status |-> 200, body |-> r.ret, calls |-> <<"getTodo">>]

\* POST /api/todos
createTodoRoute(m, body, id, date) ==
    LET parsed == parse(insertTodoSchema, body)
    IN  IF ~parsed.ok
        THEN [todos |-> m, status |-> 400,
              body |-> [message |-> "Invalid todo data", errors |-> parsed.issues],
              calls |-> <<>>]
        ELSE LET r == createTodo(m, parsed.data, id, date)
             IN  [todos |-> r.todos, status |-> 201, body |-> r.ret,
                  calls |-> <<"createTodo">>]

updateTodoRouteLooksUpFirst(m, id, body) ==
    LET parsed == parse(partial(insertTodoSchema), body)
        r == updateTodo(m, id, parsed.data)
    IN  IF r.ret = Undefined
        THEN [todos |-> r.todos, status |-> 404, body |-> NotFound,
              calls |-> <<"updateTodo">>]
        ELSE IF ~parsed.ok
        THEN [todos |-> r.todos, status |-> 400,
              body |-> [message |-> "Invalid update data", errors |-> parsed.issues],
              calls |-> <<"updateTodo">>]
        ELSE [todos |-> r.todos, status |-> 200, body |-> r.ret,
              calls |-> <<"updateTodo">>]

\* PATCH /api/todos/:id
updateTodoRoute(m, id, body) ==
    LET parsed == parse(partial(insertTodoSchema), body)
    IN  IF ~parsed.ok
        THEN [todos |-> m, status |-> 400,
              body |-> [message |-> "Invalid update data", errors |-> parsed.issues],
              calls |-> <<>>]
        ELSE LET r == updateTodo(m, id, parsed.data)
             IN  IF r.ret = Undefined
                 THEN [todos |-> r.todos, status |-> 404, body |-> NotFound,
                       calls |-> <<"updateTodo">>]
                 ELSE [todos |-> r.todos, status |-> 200, body |-> r.ret,
                       calls |-> <<"updateTodo">>]

\* DELETE /api/todos/:id
deleteTodoRoute(m, id) ==
    LET r == deleteTodo(m, id)
    IN  IF ~r.ret
        THEN [todos |-> r.todos, status |-> 404, body |-> NotFound,
              calls |-> <<"deleteTodo">>]
        ELSE [todos |-> r.todos, status |-> 204, body |-> Undefined,
              calls |-> <<"deleteTodo">>]

(***************************************************************************)
(* Requests.  A handler's only await is on a store method that has already *)
(* run to its return, so a request is one step.                            *)
(***************************************************************************)
Responded(op, id, body, r) ==
    /\ todos' = r.todos
    /\ UNCHANGED pending
    /\ last' = [op |-> op, id |-> id, arg |-> body, before |-> todos,
                status |-> r.status, ret |-> r.body, calls |-> r.calls]

GetApiTodos ==
    /\ Responded("GET list", 0, EmptyObject, listTodosRoute(todos))
    /\ UNCHANGED uuids

GetApiTodosId(id) ==
    /\ Responded("GET", id, EmptyObject, getTodoRoute(todos, id))
    /\ UNCHANGED uuids

PostApiTodos(body, date) ==
    LET r == createTodoRoute(todos, body, uuids + 1, date)
    IN  /\ Responded("POST", IF r.status = 201 THEN uuids + 1 ELSE 0, body, r)
        /\ uuids' = IF r.calls = <<>> THEN uuids ELSE uuids + 1

PatchApiTodosId(id, body) ==
    /\ Responded("PATCH", id, body, updateTodoRoute(todos, id, body))
    /\ UNCHANGED uuids

DeleteApiTodosId(id) ==
    /\ Responded("DELETE", id, EmptyObject, deleteTodoRoute(todos, id))
    /\ UNCHANGED uuids

\* The request bodies: well-formed ones, an empty text, a missing text, values of
\* the wrong type, and one that carries the keys the schema omits (ids are
\* numbered, so the id it carries is the string numbered 9).
Bodies ==
    {EmptyObject,
     [text |-> JString("")],
     [text |-> JString("a")],
     [text |-> JString("a"), completed |-> JBoolean(TRUE)],
     [completed |-> JBoolean(TRUE)],
     [completed |-> JBoolean(FALSE)],
     [text |-> JNumber(42)],
     [text |-> JString("a"), completed |-> JString("yes")],
     [completed |-> JBoolean(TRUE), id |-> JString(9), createdAt |-> JNumber(7)]}

Next ==
    \/ GetApiTodos
    \/ \E id \in 1..MaxTodos : GetApiTodosId(id)
    \/ /\ uuids < MaxTodos
       /\ \E body \in Bodies, date \in 0..MaxTime : PostApiTodos(body, date)
    \/ \E id \in 1..MaxTodos, body \in Bodies : PatchApiTodosId(id, body)
    \/ \E id \in 1..MaxTodos : DeleteApiTodosId(id)

Spec == Init /\ [][Next]_vars

(***************************************************************************)
(* The listing driven on its own: plain inputs, more tasks, more instants. *)
(***************************************************************************)
ListNext ==
    \/ CallGetTodos
    \/ /\ uuids < ListMaxTodos
       /\ \E date \in 0..ListMaxTime : CallCreateTodo([text |-> "a"], date)
    \/ \E id \in 1..ListMaxTodos : CallUpdateTodo(id, [completed |-> TRUE])
    \/ \E id \in 1..ListMaxTodos : CallDeleteTodo(id)

SpecList == Init /\ [][ListNext]_vars

(***************************************************************************)
(* A store whose call throws.  MemStorage throws nothing; the catch blocks *)
(* of the handlers are written for any IStorage, so a store failure is     *)
(* put in from outside: the call throws the error and leaves the map as it *)
(* was.  The errors are those a store raises (a driver or runtime error),  *)
(* not a ZodError, which only the parser of the handler raises.            *)
(***************************************************************************)
StoreErrors ==
    {[name |-> "Error", message |-> "connection terminated"],
     [name |-> "TypeError", message |-> "relation todos does not exist"]}

\* catch (error) of POST and PATCH: a ZodError is answered 400 with its issues,
\* anything else 500 with the handler's own message.
catchLeaksMessage(error, invalidMessage, failedMessage) ==
    [status |-> 500, body |-> [message |-> error.message]]

catch(error, invalidMessage, failedMessage) ==
    IF error.name = "ZodError"
    THEN [status |-> 400, body |-> [message |-> invalidMessage, errors |-> error.errors]]
    ELSE [status |-> 500, body |-> [message |-> failedMessage]]

\* GET /api/todos, getTodos throws
listTodosRouteCatch(m, error) ==
    [todos |-> m, status |-> 500, body |-> [message |-> "Failed to fetch todos"],
     calls |-> <<"getTodos">>]

\* GET /api/todos/:id, getTodo throws
getTodoRouteCatch(m, id, error) ==
    [todos |-> m, status |-> 500, body |-> [message |-> "Failed to fetch todo"],
     calls |-> <<"getTodo">>]

\* POST /api/todos, createTodo throws (it is called only with a body that parsed)
createTodoRouteCatch(m, body, error) ==
    LET parsed == parse(insertTodoSchema, body)
        c == catch(error, "Invalid todo data", "Failed to create todo")
    IN  IF ~parsed.ok
        THEN [todos |-> m, status |-> 400,
              body |-> [message |-> "Invalid todo data", errors |-> parsed.issues],
              calls |-> <<>>]
        ELSE [todos |-> m, status |-> c.status, body |-> c.body,
              calls |-> <<"createTodo">>]

\* PATCH /api/todos/:id, updateTodo throws (it is called only with a body that parsed)
updateTodoRouteCatch(m, id, body, error) ==
    LET parsed == parse(partial(insertTodoSchema), body)
        c == catch(error, "Invalid update data", "Failed to update todo")
    IN  IF ~parsed.ok
        THEN [todos |-> m, status |-> 400,
              body |-> [message |-> "Invalid update data", errors |-> parsed.issues],
              calls |-> <<>>]
        ELSE [todos |-> m, status |-> c.status, body |-> c.body,
              calls |-> <<"updateTodo">>]

\* DELETE /api/todos/:id, deleteTodo throws
deleteTodoRouteCatch(m, id, error) ==
    [todos |-> m, status |-> 500, body |-> [message |-> "Failed to delete todo"],
     calls |-> <<"deleteTodo">>]

\* A request whose store call threw: last also records the error.
RespondedAfterThrow(op, id, body, r, error) ==
    /\ todos' = r.todos
    /\ last' = [op |-> op, id |-> id, arg |-> body, before |-> todos,
                status |-> r.status, ret |-> r.body, calls |-> r.calls,
                thrown |-> error]
    /\ UNCHANGED <<uuids, pending>>

GetApiTodosThrows(error) ==
    RespondedAfterThrow("GET list", 0, EmptyObject, listTodosRouteCatch(todos, error), error)

GetApiTodosIdThrows(id, error) ==
    RespondedAfterThrow("GET", id, EmptyObject, getTodoRouteCatch(todos, id, error), error)

PostApiTodosThrows(body, error) ==
    /\ parse(insertTodoSchema, body).ok
    /\ RespondedAfterThrow("POST", 0, body, createTodoRouteCatch(todos, body, error), error)

PatchApiTodosIdThrows(id, body, error) ==
    /\ parse(partial(insertTodoSchema), body).ok
    /\ RespondedAfterThrow("PATCH", id, body,
                           updateTodoRouteCatch(todos, id, body, error), error)

DeleteApiTodosIdThrows(id, error) ==
    RespondedAfterThrow("DELETE", id, EmptyObject,
                        deleteTodoRouteCatch(todos, id, error), error)

FailNext ==
    \/ /\ uuids < MaxTodos
       /\ \E body \in Bodies, date \in 0..MaxTime : PostApiTodos(body, date)
    \/ \E error \in StoreErrors : GetApiTodosThrows(error)
    \/ \E id \in 1..MaxTodos, error \in StoreErrors : GetApiTodosIdThrows(id, error)
    \/ \E body \in Bodies, error \in StoreErrors : PostApiTodosThrows(body, error)
    \/ \E id \in 1..MaxTodos, body \in Bodies, error \in StoreErrors :
            PatchApiTodosIdThrows(id, body, error)
    \/ \E id \in 1..MaxTodos, error \in StoreErrors : DeleteApiTodosIdThrows(id, error)

SpecFail == Init /\ [][FailNext]_vars

(***************************************************************************)
(* PATCH handlers followed across their await.  Entering the handler runs  *)
(* it up to `await storage.updateTodo(id, updates)`: the parse, and the    *)
(* whole body of updateTodo, which has no await of its own, so its         *)
(* Map.get, spread and Map.set run in that one step.  The handler is then  *)
(* suspended, other handlers may be entered or resumed, and on resuming it *)
(* only responds.  A body the parser rejects is answered in the first      *)
(* step.  (Node resumes a handler that awaits a settled promise before it  *)
(* enters the next request; any order is allowed here, as for a store that *)
(* does I/O.)                                                              *)
(***************************************************************************)
\* The map after the statements that follow the await, written for a handler that
\* sets what updateTodo returned once more.
afterAwaitSetsAgain(m, handler) ==
    IF handler.updatedTodo = Undefined THEN m
    ELSE MapSet(m, handler.id, handler.updatedTodo)

\* The map after the statements that follow the await: they only respond.
afterAwait(m, handler) == m

PatchEnter(h, id, body) ==
    LET parsed == parse(partial(insertTodoSchema), body)
        r == updateTodo(todos, id, parsed.data)
        overlaps == \E g \in 1..MaxHandlers : pending[g].pc = "awaiting"
    IN  /\ pending[h].pc = "idle"
        /\ IF ~parsed.ok
           THEN /\ todos' = todos
                /\ pending' = [pending EXCEPT ![h] =
                        [pc |-> "done", id |-> id, body |-> body, overlaps |-> overlaps,
                         status |-> 400,
                         ret |-> [message |-> "Invalid update data",
                                  errors |-> parsed.issues]]]
                /\ last' = [op |-> "PATCH", id |-> id, arg |-> body, before |-> todos,
                            status |-> 400,
                            ret |-> [message |-> "Invalid update data",
                                     errors |-> parsed.issues],
                            calls |-> <<>>]
           ELSE /\ todos' = r.todos
                /\ pending' = [pending EXCEPT ![h] =
                        [pc |-> "awaiting", id |-> id, body |-> body,
                         overlaps |-> overlaps, updatedTodo |-> r.ret]]
                /\ last' = [op |-> "PATCH enter", id |-> id, arg |-> body,
                            before |-> todos, status |-> 0, ret |-> r.ret,
                            calls |-> <<"updateTodo">>]
        /\ UNCHANGED uuids

PatchResume(h) ==
    LET handler == pending[h]
        status == IF handler.updatedTodo = Undefined THEN 404 ELSE 200
        ret == IF handler.updatedTodo = Undefined THEN NotFound ELSE handler.updatedTodo
    IN  /\ handler.pc = "awaiting"
        /\ todos' = afterAwait(todos, handler)
        /\ pending' = [pending EXCEPT ![h] =
                [pc |-> "done", id |-> handler.id, body |-> handler.body,
                 overlaps |-> handler.overlaps, status |-> status, ret |-> ret]]
        /\ last' = [op |-> "PATCH resume", id |-> handler.id, arg |-> handler.body,
                    before |-> todos, status |-> status, ret |-> ret, calls |-> <<>>]
        /\ UNCHANGED uuids

\* The bodies of the concurrent PATCH requests: a text, a completed, both, a wrong type.
ConcBodies ==
    {[text |-> JString("b")],
     [completed |-> JBoolean(TRUE)],
     [text |-> JString("a"), completed |-> JBoolean(FALSE)],
     [text |-> JNumber(42)]}

ConcNext ==
    \/ /\ uuids < ConcMaxTodos
       /\ PostApiTodos([text |-> JString("a")], 0)
    \/ \E h \in 1..MaxHandlers, id \in 1..ConcMaxTodos, body \in ConcBodies :
            PatchEnter(h, id, body)
    \/ \E h \in 1..MaxHandlers : PatchResume(h)

SpecConc == Init /\ [][ConcNext]_vars

(***************************************************************************)
(* Vocabulary of the properties.                                           *)
(***************************************************************************)
\* The elements of a sequence.
Range(s) == {s[i] : i \in 1..Len(s)}

\* An object cut down to the given keys.
Pick(obj, keys) == [k \in (DOMAIN obj) \cap keys |-> obj[k]]

\* A body the schema rejects, said without the parser: a text that is no string, a
\* completed that is no boolean, or, where text is required, no text.
WrongType(body, k, type) == k \in DOMAIN body /\ body[k].type # type

BodyFailsSchema(body, textRequired) ==
    \/ WrongType(body, "text", "string")
    \/ WrongType(body, "completed", "boolean")
    \/ textRequired /\ "text" \notin DOMAIN body

\* The map but for the entry of one key.
Others(m, id) ==
    LET NotId(e) == e.key # id
    IN  SelectSeq(m, NotId)

(***************************************************************************)
(* C1.  When createTodo(input) returns a task T, getTodo(T.id) returns T,  *)
(* getTodos() has exactly one entry with T's id and that entry has the     *)
(* input's text and completed; T's id is the id of no task created before, *)
(* and the tasks that were stored are all still listed.                    *)
(***************************************************************************)
C1_CreateThenRead ==
    last.op = "createTodo" =>
        LET T == last.ret
            list == getTodos(todos).ret
            hits == {i \in 1..Len(list) : list[i].id = T.id}
        IN  /\ getTodo(todos, T.id).ret = T
            /\ Cardinality(hits) = 1
            /\ \A i \in hits : Pick(list[i], {"text", "completed"}) = last.arg
            /\ \A old \in Range(MapValues(last.before)) :
                    old.id # T.id /\ old \in Range(list)
            /\ Len(list) = Len(last.before) + 1

\* A second createTodo with the input of a task that is still stored.
C1_Witness ==
    /\ last.op = "createTodo"
    /\ \E old \in Range(MapValues(last.before)) :
            Pick(old, {"text", "completed"}) = last.arg
    /\ Len(todos) = 2

(***************************************************************************)
(* C2.  POST /api/todos with a body that holds only a text responds 201    *)
(* with a task whose completed is false, and the task read back from the   *)
(* store has completed = false.                                            *)
(***************************************************************************)
C2_CompletedDefaultsFalse ==
    (last.op = "POST" /\ last.arg = [text |-> JString("a")]) =>
        /\ last.status = 201
        /\ "completed" \in DOMAIN last.ret
        /\ last.ret.completed = FALSE
        /\ "completed" \in DOMAIN getTodo(todos, last.id).ret
        /\ getTodo(todos, last.id).ret.completed = FALSE

(***************************************************************************)
(* C3.  POST /api/todos with the body {text: ""} responds 400 with a       *)
(* validation error whose path is text, and the map is as it was.          *)
(***************************************************************************)
C3_EmptyTextRejected ==
    (last.op = "POST" /\ last.arg = [text |-> JString("")]) =>
        /\ last.status = 400
        /\ "errors" \in DOMAIN last.ret
        /\ \E issue \in last.ret.errors : issue.path = "text"
        /\ todos = last.before

(***************************************************************************)
(* C4.  Under any sequence of requests no stored task has an empty text.   *)
(***************************************************************************)
C4_NoEmptyText ==
    \A todo \in Range(MapValues(todos)) : todo.text # ""

(***************************************************************************)
(* C5.  A POST or PATCH whose body fails the schema is answered 400 with a *)
(* non-empty list of validation errors, calls no store method and leaves   *)
(* the map as it was, for PATCH also when the id has no task.              *)
(***************************************************************************)
C5_InvalidBodyNoStoreCall ==
    (/\ last.op \in {"POST", "PATCH"}
     /\ BodyFailsSchema(last.arg, last.op = "POST")) =>
        /\ last.status = 400
        /\ "errors" \in DOMAIN last.ret
        /\ last.ret.errors # {}
        /\ last.calls = <<>>
        /\ todos = last.before

\* A PATCH with a body of the wrong type for an id that has no task, other tasks stored.
C5_Witness ==
    /\ last.op = "PATCH"
    /\ BodyFailsSchema(last.arg, FALSE)
    /\ ~MapHas(last.before, last.id)
    /\ last.before # <<>>
    /\ last.status = 400

(***************************************************************************)
(* C6.  updateTodo(id, {completed: true}) on a stored task leaves its id,  *)
(* text and createdAt as they were, sets its completed, adds or drops no   *)
(* other key, and leaves every other entry and the order of the map alone. *)
(***************************************************************************)
C6_UpdateCompletedOnly ==
    (/\ last.op = "updateTodo"
     /\ last.arg = [completed |-> TRUE]
     /\ MapHas(last.before, last.id)) =>
        LET old == MapGet(last.before, last.id)
            new == MapGet(todos, last.id)
        IN  /\ MapHas(todos, last.id)
            /\ new.completed = TRUE
            /\ Pick(new, {"id", "text", "createdAt"}) = Pick(old, {"id", "text", "createdAt"})
            /\ DOMAIN new = (DOMAIN old) \cup {"completed"}
            /\ last.ret = new
            /\ Len(todos) = Len(last.before)
            /\ \A i \in 1..Len(todos) :
                    /\ todos[i].key = last.before[i].key
                    /\ todos[i].key # last.id => todos[i] = last.before[i]

\* The update of a task that was not completed, with another task stored.
C6_Witness ==
    /\ last.op = "updateTodo"
    /\ last.arg = [completed |-> TRUE]
    /\ MapHas(last.before, last.id)
    /\ Pick(MapGet(last.before, last.id), {"completed"}) # [completed |-> TRUE]
    /\ MapGet(last.before, last.id).text = "b"
    /\ Len(todos) = 2

(***************************************************************************)
(* C7.  updateTodo on an id that has no task returns undefined and leaves  *)
(* the map, and so the number of tasks, as it was.                         *)
(***************************************************************************)
C7_UpdateAbsentNoUpsert ==
    (last.op = "updateTodo" /\ ~MapHas(last.before, last.id)) =>
        /\ last.ret = Undefined
        /\ todos = last.before
        /\ ~MapHas(todos, last.id)

\* An update that carries fields, for an id without a task, other tasks stored.
C7_Witness ==
    /\ last.op = "updateTodo"
    /\ ~MapHas(last.before, last.id)
    /\ last.arg = [text |-> "a", completed |-> FALSE]
    /\ last.before # <<>>

(***************************************************************************)
(* C8.  deleteTodo(id) on a stored task returns true and removes that      *)
(* entry and no other; getTodo(id) then returns undefined, and deleteTodo  *)
(* of the same id then returns false and leaves the map as it is.  A       *)
(* deleteTodo of an id without a task returns false and changes nothing.   *)
(***************************************************************************)
C8_DeleteThenDeleteAgain ==
    last.op = "deleteTodo" =>
        IF MapHas(last.before, last.id)
        THEN /\ last.ret = TRUE
             /\ todos = Others(last.before, last.id)
             /\ Len(todos) = Len(last.before) - 1
             /\ getTodo(todos, last.id).ret = Undefined
             /\ deleteTodo(todos, last.id).ret = FALSE
             /\ deleteTodo(todos, last.id).todos = todos
        ELSE /\ last.ret = FALSE
             /\ todos = last.before

\* A stored task deleted while another stays.
C8_Witness ==
    /\ last.op = "deleteTodo"
    /\ MapHas(last.before, last.id)
    /\ last.ret = TRUE
    /\ Len(todos) = 1

(***************************************************************************)
(* C9.  getTodos() returns every stored task once, the later createdAt     *)
(* first, and changes nothing; an empty store gives an empty sequence.     *)
(***************************************************************************)
C9_ListNewestFirst ==
    last.op = "getTodos" =>
        LET list == last.ret
        IN  /\ Len(list) = Len(last.before)
            /\ Range(list) = Range(MapValues(last.before))
            /\ \A i \in 1..Len(list) : \A j \in 1..Len(list) :
                    i < j => list[i].createdAt >= list[j].createdAt
            /\ todos = last.before

\* Three tasks created at t1 < t2 < t3, one of them updated since and a fourth task
\* deleted since, listed [t3, t2, t1].
C9_Witness ==
    /\ last.op = "getTodos"
    /\ uuids = 4
    /\ Len(last.ret) = 3
    /\ last.before[1].value.createdAt < last.before[2].value.createdAt
    /\ last.before[2].value.createdAt < last.before[3].value.createdAt
    /\ "completed" \in DOMAIN last.before[2].value
    /\ last.ret = <<last.before[3].value, last.before[2].value, last.before[1].value>>

(***************************************************************************)
(* C10.  GET, PATCH with a body the schema accepts, and DELETE of an id    *)
(* that has no task respond 404 and leave the map as it was; once DELETE   *)
(* has responded 204, GET, PATCH and DELETE of that id respond 404.        *)
(***************************************************************************)
C10_AbsentIs404 ==
    /\ (/\ last.op \in {"GET", "PATCH", "DELETE"}
        /\ ~MapHas(last.before, last.id)
        /\ ~BodyFailsSchema(last.arg, FALSE)) =>
            /\ last.status = 404
            /\ todos = last.before
    /\ (last.op = "DELETE" /\ last.status = 204) =>
            /\ getTodoRoute(todos, last.id).status = 404
            /\ deleteTodoRoute(todos, last.id).status = 404
            /\ \A body \in Bodies :
                    ~BodyFailsSchema(body, FALSE) =>
                        updateTodoRoute(todos, last.id, body).status = 404

\* DELETE has responded 204 and another task is still stored.
C10_Witness ==
    /\ last.op = "DELETE"
    /\ last.status = 204
    /\ todos # <<>>

(***************************************************************************)
(* C11.  Under any sequence of requests, bodies that carry id or createdAt *)
(* included, a stored task has the id it is stored under, and a task that  *)
(* was stored before the request and still is has the id and createdAt it  *)
(* had; a PATCH changes, adds or drops no key other than text and          *)
(* completed.                                                              *)
(***************************************************************************)
C11_IdAndCreatedAtFixed ==
    \A i \in 1..Len(todos) :
        LET key == todos[i].key
            new == todos[i].value
            old == MapGet(last.before, key)
        IN  /\ new.id = key
            /\ MapHas(last.before, key) =>
                /\ Pick(new, {"id", "createdAt"}) = Pick(old, {"id", "createdAt"})
                /\ \A k \in ((DOMAIN new) \cup (DOMAIN old)) \ {"text", "completed"} :
                        k \in DOMAIN new /\ k \in DOMAIN old /\ new[k] = old[k]
            /\ ~MapHas(last.before, key) =>
                last.op = "POST" /\ last.status = 201 /\ new = last.ret

\* A PATCH whose body carries id and createdAt has updated a stored task.
C11_Witness ==
    /\ last.op = "PATCH"
    /\ {"id", "createdAt"} \subseteq DOMAIN last.arg
    /\ last.status = 200
    /\ MapGet(todos, last.id) # MapGet(last.before, last.id)
    /\ Len(todos) = 2

(***************************************************************************)
(* C12.  When the store call of a request throws, the response is 500, so  *)
(* neither 400 nor 404, and its body is the one message fixed for that     *)
(* endpoint, which is not the message of the error or of any other error;  *)
(* the map is as it was.                                                   *)
(***************************************************************************)
FailedMessage(op) ==
    CASE op = "GET list" -> "Failed to fetch todos"
      [] op = "GET"      -> "Failed to fetch todo"
      [] op = "POST"     -> "Failed to create todo"
      [] op = "PATCH"    -> "Failed to update todo"
      [] op = "DELETE"   -> "Failed to delete todo"

Plain(body) == [k \in (DOMAIN body) \cap {"text", "completed"} |-> body[k].val]

Updated200(h) == pending[h].pc = "done" /\ pending[h].status = 200

C13_UpdatesDoNotInterleave ==
    /\ (last.op = "PATCH enter" /\ MapHas(last.before, last.id)) =>
            /\ MapGet(todos, last.id) = Spread(MapGet(last.before, last.id), Plain(last.arg))
            /\ last.ret = MapGet(todos, last.id)
            /\ Others(todos, last.id) = Others(last.before, last.id)
    /\ last.op = "PATCH resume" => todos = last.before
    /\ \A g \in 1..MaxHandlers : \A h \in 1..MaxHandlers :
            (/\ g # h
             /\ Updated200(g) /\ Updated200(h)
             /\ pending[g].id = pending[h].id
             /\ (DOMAIN pending[g].body) \cap (DOMAIN pending[h].body) = {}
             /\ \A f \in (1..MaxHandlers) \ {g, h} :
                    pending[f].pc = "idle" \/ pending[f].id # pending[g].id) =>
                LET record == MapGet(todos, pending[g].id)
                IN  /\ MapHas(todos, pending[g].id)
                    /\ \A k \in DOMAIN pending[g].body : record[k] = pending[g].body[k].val
                    /\ \A k \in DOMAIN pending[h].body : record[k] = pending[h].body[k].val

\* Two handlers of one id, one with a text and one with a completed, have both
\* responded 200, and the second was entered while the first was suspended.
C13_Witness ==
    \E g \in 1..MaxHandlers : \E h \in 1..MaxHandlers :
        /\ g # h
        /\ Updated200(g) /\ Updated200(h)
        /\ pending[g].id = pending[h].id
        /\ pending[g].body = [text |-> JString("b")]
        /\ pending[h].body = [completed |-> JBoolean(TRUE)]
        /\ pending[h].overlaps
        /\ last.op = "PATCH resume"

(***************************************************************************)
(* C14.  Of two stored tasks with the same createdAt, getTodos() lists     *)
(* first the one created first, which is also the one that comes first in  *)
(* the map, whether or not either has been updated since.                  *)
(***************************************************************************)
\* Where the map holds the key.
Position(m, k) == CHOOSE i \in 1..Len(m) : m[i].key = k

C14_TiesInCreationOrder ==
    last.op = "getTodos" =>
        LET list == last.ret
        IN  \A i \in 1..Len(list) : \A j \in 1..Len(list) :
                (i < j /\ list[i].createdAt = list[j].createdAt) =>
                    /\ list[i].id < list[j].id
                    /\ Position(last.before, list[i].id) < Position(last.before, list[j].id)

\* Two tasks of one instant listed after a newer task that was created later than
\* both, the earlier of the two updated since its creation.
C14_Witness ==
    /\ last.op = "getTodos"
    /\ Len(last.ret) = 3
    /\ last.ret[1].createdAt > last.ret[2].createdAt
    /\ last.ret[2].createdAt = last.ret[3].createdAt
    /\ last.ret[2].id < last.ret[3].id
    /\ last.ret[3].id < last.ret[1].id
    /\ "completed" \in DOMAIN last.ret[2]
    /\ "completed" \notin DOMAIN last.ret[3]

====
